---------------------------- MODULE Spec2Model ----------------------------
(***************************************************************************)
(* Model of the streaming session engine of live_whisper/server.py:        *)
(* ClientManager (admission, lifetime), TranscriptionServer (connection    *)
(* handler), ServeClientBase (audio window) and ServeClientFasterWhisper   *)
(* (worker loop, segment stabilizer, shared model lock).                   *)
(*                                                                         *)
(* Units.  Audio time (timestamp_offset, frames_offset, segment start/end, *)
(* duration) is counted in samples, 1 second = RATE samples, so that       *)
(* 45 * RATE, int(30 * RATE) and shape[0] / RATE are exact.  Wall-clock    *)
(* time (time.time()) is counted in whole seconds.  A formatted time       *)
(* "{:.3f}" is the number of milliseconds it shows.  A text is a sequence  *)
(* of one-character strings.  no_speech_prob is counted in hundredths.     *)
(***************************************************************************)
EXTENDS Integers, Sequences, FiniteSets, TLC

VARIABLES
    hpc,            \* connection handler position, per websocket
    hl,             \* connection handler locals (options, frame being added)
    clients,        \* ClientManager.clients: the websockets that have a client
    start_times,    \* ClientManager.start_times
    now,            \* time.time(), seconds
    sent,           \* control messages sent on each websocket, in order
    peer,           \* the client end of each websocket: open, ended, closed
    use_vad,        \* TranscriptionServer.use_vad
    admitted_at,    \* history: when add_client registered each websocket
    out,            \* last segments message sent on each websocket
    sess,           \* the ServeClientFasterWhisper object of each websocket
    wpc,            \* worker thread (speech_to_text) position, per websocket
    wl,             \* worker thread locals
    single_model,   \* TranscriptionServer.single_model
    SINGLE_MODEL,   \* ServeClientFasterWhisper.SINGLE_MODEL is set
    SINGLE_MODEL_LOCK, \* holder of ServeClientFasterWhisper.SINGLE_MODEL_LOCK
    ret,            \* value returned by the last update_segments call
    run,            \* history: the current run of identical stabilizer calls
    hist            \* history: facts about past steps the claims refer to

vars == <<hpc, hl, clients, start_times, now, sent, peer, use_vad, admitted_at,
          out, sess, wpc, wl,
          single_model, SINGLE_MODEL, SINGLE_MODEL_LOCK, ret, run, hist>>

regVars   == <<clients, start_times, admitted_at>>
netVars   == <<sent, peer, out>>
modelVars == <<single_model, SINGLE_MODEL, SINGLE_MODEL_LOCK>>
histVars  == <<ret, run, hist>>
workerVars == <<wpc, wl>>

---------------------------------------------------------------------------
(* Bounds of the model *)

NumConns == 5
MaxNow == 602
MaxTranscript == 2
MaxText == 2
MaxTsSeconds == 2
MaxFrames == 3
MaxPolls == 3
MaxPausePolls == 5
MaxPause == 6
MaxOutPolls == 13
MaxSent == 12

(* Program constants *)

RATE == 16000
max_clients == 4
max_connection_time == 600
no_speech_thresh == 45
same_output_limit == 5
send_last_n_segments == 10
show_prev_out_thresh == 5
add_pause_thresh == 3

Conns == 1..NumConns
None == -1

Min(a, b) == IF a < b THEN a ELSE b
Max(a, b) == IF a > b THEN a ELSE b

---------------------------------------------------------------------------
(* Texts: str.strip(), str.lower() *)

IsSpace(ch) == ch = " "

RECURSIVE lstrip(_)
lstrip(t) ==
    IF t = <<>> THEN <<>>
    ELSE IF IsSpace(Head(t)) THEN lstrip(Tail(t)) ELSE t

RECURSIVE rstrip(_)
rstrip(t) ==
    IF t = <<>> THEN <<>>
    ELSE IF IsSpace(t[Len(t)]) THEN rstrip(SubSeq(t, 1, Len(t) - 1)) ELSE t

strip(t) == rstrip(lstrip(t))

LowerChar(ch) ==
    CASE ch = "A" -> "a"
      [] ch = "B" -> "b"
      [] OTHER -> ch

lower(t) == [i \in 1..Len(t) |-> LowerChar(t[i])]

---------------------------------------------------------------------------
(* format_segment: "{:.3f}".format(x) shows x rounded to milliseconds      *)
(* (round-half-even on the exact value).                                   *)

SamplesPerMs == RATE \div 1000

Fmt3(x) ==
    LET q == x \div SamplesPerMs
        r == x % SamplesPerMs
    IN  IF 2 * r < SamplesPerMs THEN q
        ELSE IF 2 * r > SamplesPerMs THEN q + 1
        ELSE IF q % 2 = 0 THEN q ELSE q + 1

format_segment(start, end, text) ==
    [start |-> Fmt3(start), end |-> Fmt3(end), text |-> text]

---------------------------------------------------------------------------
(* ServeClientBase.__init__ / ServeClientFasterWhisper.__init__: the fresh  *)
(* client object.  frames_np is None (frames_none) or an array, kept as a   *)
(* sequence of runs [n |-> samples, v |-> sample value]; lock is the        *)
(* per-client threading.Lock (TRUE: held).                                  *)

NewClient ==
    [frames_none |-> TRUE, frames_np |-> <<>>,
     timestamp_offset |-> 0, frames_offset |-> 0,
     text |-> <<>>, current_out |-> <<>>, prev_out |-> <<>>,
     t_start |-> None, exit |-> FALSE, same_output_threshold |-> 0,
     transcript |-> <<>>, lock |-> FALSE, use_vad |-> TRUE]

NoClient == [absent |-> TRUE]

\* the locals of speech_to_text;
\* polls and raised are history: the number of transcription calls made and
\* whether one of them raised
NoLocals == [duration |-> 0, samples_take |-> 0, ts |-> 0, offset |-> None,
             result |-> <<>>, no_result |-> FALSE, last_segment |-> <<>>,
             polls |-> 0, raised |-> FALSE]

---------------------------------------------------------------------------
(* update_segments: the segment stabilizer *)

\* line 713 / 720: s.no_speech_prob > self.no_speech_thresh
NoSpeech(s) == s.no_speech_prob > no_speech_thresh

\* CompleteStep without the no-speech test of line 713
CompleteStep_m(acc, s, ts, duration) ==
    LET text1 == Append(acc.text, s.text)
        start == ts + s.start
        end   == ts + Min(duration, s.end)
    IN  IF start >= end THEN [acc EXCEPT !.text = text1]
        ELSE [text |-> text1,
              transcript |-> Append(acc.transcript, format_segment(start, end, s.text)),
              offset |-> Min(duration, s.end)]

\* lines 707-717: one iteration of the loop over segments[:-1]
CompleteStep(acc, s, ts, duration) ==
    LET text1 == Append(acc.text, s.text)
        start == ts + s.start
        end   == ts + Min(duration, s.end)
    IN  IF start >= end THEN [acc EXCEPT !.text = text1]
        ELSE IF NoSpeech(s) THEN [acc EXCEPT !.text = text1]
        ELSE [text |-> text1,
              transcript |-> Append(acc.transcript, format_segment(start, end, s.text)),
              offset |-> Min(duration, s.end)]

RECURSIVE CompleteLoop(_, _, _, _, _)
CompleteLoop(acc, segments, i, ts, duration) ==
    IF i > Len(segments) - 1 THEN acc
    ELSE CompleteLoop(CompleteStep(acc, segments[i], ts, duration),
                      segments, i + 1, ts, duration)

SameOutputExceeded_m(n) == n >= same_output_limit

\* line 735: self.same_output_threshold > 5
SameOutputExceeded(n) == n > same_output_limit

\* line 736: not len(self.text) or self.text[-1].strip().lower() != self.current_out.strip().lower()
DiffersFromLastText(text, current_out) ==
    \/ Len(text) = 0
    \/ lower(strip(text[Len(text)])) # lower(strip(current_out))

\* lines 700-748: everything up to "update offset"; ts is the value of
\* self.timestamp_offset the call reads.
update_segments_body(c0, ts, segments, duration) ==
    LET acc0 == [text |-> c0.text, transcript |-> c0.transcript, offset |-> None]
        acc1 == IF Len(segments) > 1
                THEN CompleteLoop(acc0, segments, 1, ts, duration)
                ELSE acc0
        last == segments[Len(segments)]
        current_out == IF ~NoSpeech(last) THEN last.text ELSE <<>>
        last_segment ==
            IF ~NoSpeech(last)
            THEN <<format_segment(ts + last.start,
                                  ts + Min(duration, last.end), current_out)>>
            ELSE <<>>
        same == IF strip(current_out) = strip(c0.prev_out) /\ current_out # <<>>
                THEN c0.same_output_threshold + 1
                ELSE 0
        stable == SameOutputExceeded(same)
        commit == stable /\ DiffersFromLastText(acc1.text, current_out)
    IN  [client |->
            [c0 EXCEPT
               !.text = IF commit THEN Append(acc1.text, current_out) ELSE acc1.text,
               !.transcript =
                  IF commit
                  THEN Append(acc1.transcript,
                              format_segment(ts, ts + duration, current_out))
                  ELSE acc1.transcript,
               !.current_out = IF stable THEN <<>> ELSE current_out,
               !.prev_out = IF stable THEN c0.prev_out ELSE current_out,
               !.same_output_threshold = IF stable THEN 0 ELSE same],
         offset |-> IF stable THEN duration ELSE acc1.offset,
         last_segment |-> IF stable THEN <<>> ELSE last_segment]

\* lines 700-754 run without interruption
update_segments(c0, segments, duration) ==
    LET r == update_segments_body(c0, c0.timestamp_offset, segments, duration)
    IN  [client |->
            IF r.offset # None
            THEN [r.client EXCEPT !.timestamp_offset = @ + r.offset]
            ELSE r.client,
         last_segment |-> r.last_segment]


---------------------------------------------------------------------------
(* Initial values shared by the specifications *)

NoRun == [n |-> 0, segments |-> <<>>, duration |-> 0, base |-> 0, differs |-> FALSE]
NoCall == [op |-> "none"]

InitRegistry ==
    /\ clients = {}
    /\ start_times = [c \in Conns |-> None]
    /\ now = 0
    /\ sent = [c \in Conns |-> <<>>]
    /\ peer = [c \in Conns |-> "open"]
    /\ use_vad = TRUE
    /\ admitted_at = [c \in Conns |-> None]
    /\ out = [c \in Conns |-> <<>>]

InitModel ==
    /\ SINGLE_MODEL = FALSE
    /\ SINGLE_MODEL_LOCK = None

InitHistory ==
    /\ ret = <<>>
    /\ run = NoRun
    /\ hist = NoCall

---------------------------------------------------------------------------
(* SpecStab: the stabilizer applied, call after call, to one client object  *)
(* with raw segments and durations drawn from small sets.                   *)

SegA   == [start |-> RATE, end |-> RATE + RATE \div 2, text |-> <<"a">>, no_speech_prob |-> 10]
SegAsp == [start |-> RATE, end |-> RATE + RATE \div 2, text |-> <<"A", " ">>, no_speech_prob |-> 45]
SegSp  == [start |-> RATE, end |-> RATE + RATE \div 2, text |-> <<" ">>, no_speech_prob |-> 10]
SegN   == [start |-> RATE, end |-> RATE + RATE \div 2, text |-> <<"n">>, no_speech_prob |-> 90]
SegB   == [start |-> RATE \div 2, end |-> RATE, text |-> <<"b">>, no_speech_prob |-> 10]
SegA0  == [start |-> 0, end |-> RATE \div 2, text |-> <<"a">>, no_speech_prob |-> 10]
SegM   == [start |-> 0, end |-> RATE \div 2, text |-> <<"m">>, no_speech_prob |-> 46]
SegE   == [start |-> RATE, end |-> RATE, text |-> <<"e">>, no_speech_prob |-> 10]

LastSegs == {SegA, SegAsp, SegSp, SegN}
CompleteSegs == {SegB, SegA0, SegM, SegE}

\* raw segment lists, sorted by start and non-empty
StabInputs ==
    {<<t>> : t \in LastSegs} \cup {<<c, t>> : c \in CompleteSegs, t \in LastSegs}

\* the worker calls the stabilizer only with duration >= 1.0
Durations == {RATE, 2 * RATE}

InitStab ==
    /\ hpc = [c \in Conns |-> "absent"]
    /\ hl = [c \in Conns |-> <<>>]
    /\ sess = [c \in Conns |-> IF c = 1 THEN NewClient ELSE NoClient]
    /\ wpc = [c \in Conns |-> "none"]
    /\ wl = [c \in Conns |-> NoLocals]
    /\ single_model = FALSE
    /\ InitRegistry /\ InitModel /\ InitHistory

NextRun(c0, segments, duration) ==
    IF run.n > 0 /\ segments = run.segments /\ duration = run.duration
    THEN [run EXCEPT !.n = Min(@ + 1, 8)]
    ELSE IF /\ c0.prev_out = <<>>
            /\ c0.same_output_threshold = 0
            /\ Len(segments) = 1
            /\ ~NoSpeech(segments[1])
            /\ strip(segments[1].text) # <<>>
         THEN [n |-> 1, segments |-> segments, duration |-> duration,
               base |-> Len(c0.transcript),
               differs |-> DiffersFromLastText(c0.text, segments[1].text)]
         ELSE NoRun

StabCall(c, segments, duration) ==
    LET r == update_segments(sess[c], segments, duration)
    IN  /\ Len(r.client.transcript) <= MaxTranscript
        /\ Len(r.client.text) <= MaxText
        /\ r.client.timestamp_offset <= MaxTsSeconds * RATE
        /\ sess' = [sess EXCEPT ![c] = r.client]
        /\ ret' = r.last_segment
        /\ run' = NextRun(sess[c], segments, duration)
        /\ hist' = [op |-> "update_segments", pre |-> sess[c],
                    segments |-> segments, duration |-> duration]
        /\ UNCHANGED <<hpc, hl, now, use_vad, regVars, netVars, workerVars, modelVars>>

NextStab == \E segments \in StabInputs, duration \in Durations :
                StabCall(1, segments, duration)

SpecStab == InitStab /\ [][NextStab]_vars


---------------------------------------------------------------------------
(* SpecCommit: the stabilizer called with a repeated last segment, alone or *)
(* after a complete segment that the filters of lines 711-714 skip or keep. *)

\* a complete segment with start >= end: line 711 skips it
SegQ == [start |-> RATE, end |-> RATE, text |-> <<"a">>, no_speech_prob |-> 10]

CommitLastSegs == {SegA, SegAsp}
CommitCompleteSegs == {SegQ, SegB, SegM}

CommitInputs ==
    {<<t>> : t \in CommitLastSegs}
        \cup {<<c, t>> : c \in CommitCompleteSegs, t \in CommitLastSegs}

NextCommit == \E segments \in CommitInputs, duration \in Durations :
                  StabCall(1, segments, duration)

SpecCommit == InitStab /\ [][NextCommit]_vars

---------------------------------------------------------------------------
(* ClientManager *)

\* wait_time / 60: a number of minutes, kept as a fraction
Minutes(seconds) == [num |-> seconds, den |-> 60]

\* lines 73-85
get_wait_time ==
    LET remaining == {max_connection_time - (now - start_times[c]) :
                        c \in {x \in Conns : start_times[x] # None}}
    IN  IF remaining = {} THEN [num |-> 0, den |-> 1]
        ELSE Minutes(CHOOSE w \in remaining : \A v \in remaining : w <= v)

\* a server that admits one client more
ServerFull_m == Cardinality(clients) > max_clients

\* line 98: len(self.clients) >= self.max_clients
ServerFull == Cardinality(clients) >= max_clients

\* line 116: elapsed_time >= self.max_connection_time
ClientTimeout(c) == now - start_times[c] >= max_connection_time

Send(c, msg) == [sent EXCEPT ![c] = Append(@, msg)]

---------------------------------------------------------------------------
(* TranscriptionServer.recv_audio: the handler of one websocket *)

\* lines 195-197: the handshake is received and parsed, use_vad is stored
Handshake(c, options) ==
    /\ hpc[c] = "handshake"
    /\ peer[c] = "open"
    /\ hl' = [hl EXCEPT ![c] = options]
    /\ use_vad' = options.use_vad
    /\ hpc' = [hpc EXCEPT ![c] = "is_server_full"]
    /\ UNCHANGED <<now, sess, regVars, netVars, workerVars, modelVars, histVars>>

\* a handshake that is not JSON
MalformedOptions == [malformed |-> TRUE]

\* lines 195-196, 205-207: the handshake is not JSON; json.loads raises and
\* handle_new_connection returns False
HandshakeMalformed(c) ==
    /\ hpc[c] = "handshake"
    /\ peer[c] = "open"
    /\ hl' = [hl EXCEPT ![c] = MalformedOptions]
    /\ hpc' = [hpc EXCEPT ![c] = "done"]
    /\ UNCHANGED <<now, use_vad, sess, regVars, netVars, workerVars, modelVars,
                   histVars>>

\* lines 199-201 and 87-103: is_server_full, WAIT and close when full
IsServerFull(c) ==
    /\ hpc[c] = "is_server_full"
    /\ IF ServerFull
       THEN /\ sent' = IF peer[c] = "open"
                       THEN Send(c, [uid |-> hl[c].uid, status |-> "WAIT",
                                     message |-> get_wait_time])
                       ELSE sent
            /\ hpc' = [hpc EXCEPT ![c] = "done"]
       ELSE /\ hpc' = [hpc EXCEPT ![c] = "initialize_client"]
            /\ sent' = sent
    /\ UNCHANGED <<hl, now, use_vad, sess, peer, out, regVars, workerVars,
                   modelVars, histVars>>

\* line 524
model_sizes == {"small.en", "base.en", "medium.en"}

\* a server that accepts every model name
ModelFound_m(options) == TRUE

\* lines 157-159, 526-527, 586: the server's own model path replaces the
\* client's choice (single-model mode runs with one); otherwise the name must
\* be one of model_sizes
ModelFound(options) == single_model \/ options.model \in model_sizes

\* lines 161-169 and 506-569: the client object is built, its worker thread
\* started and SERVER_READY sent.  For an unknown model name check_valid_model
\* sends ERROR and returns None, os.path.join raises (line 527) and
\* handle_new_connection returns False (lines 211-213).
InitializeClient(c) ==
    /\ hpc[c] = "initialize_client"
    /\ IF ~ModelFound(hl[c])
       THEN /\ sent' = IF peer[c] = "closed" THEN sent
                       ELSE Send(c, [uid |-> hl[c].uid, status |-> "ERROR",
                                     message |-> "Invalid model size"])
            /\ hpc' = [hpc EXCEPT ![c] = "done"]
            /\ UNCHANGED <<sess, SINGLE_MODEL, wpc>>
       ELSE /\ sess' = [sess EXCEPT ![c] = [NewClient EXCEPT !.use_vad = use_vad]]
            /\ SINGLE_MODEL' = (SINGLE_MODEL \/ single_model)
            /\ wpc' = [wpc EXCEPT ![c] = "check_exit"]
            /\ IF peer[c] = "closed"
               THEN /\ hpc' = [hpc EXCEPT ![c] = "done"]
                    /\ sent' = sent
               ELSE /\ hpc' = [hpc EXCEPT ![c] = "add_client"]
                    /\ sent' = Send(c, [uid |-> hl[c].uid, message |-> "SERVER_READY"])
    /\ UNCHANGED <<hl, now, use_vad, peer, out, wl, regVars, single_model,
                   SINGLE_MODEL_LOCK, histVars>>

\* history of the models: the sessions whose constructor called
\* create_model, the model each session transcribes with (named by the
\* session that created it) and the model held by SINGLE_MODEL
NoModels == [op |-> "create_model", created |-> {},
             transcriber |-> [c \in Conns |-> None], shared |-> None]

Models == IF hist.op = "create_model" THEN hist ELSE NoModels

\* lines 526-557: the constructor up to the choice of the model; with
\* single_model, line 550 tests ServeClientFasterWhisper.SINGLE_MODEL is None
ConstructorTest(c) ==
    /\ hpc[c] = "initialize_client"
    /\ ModelFound(hl[c])
    /\ hpc' = [hpc EXCEPT ![c] =
                 IF ~single_model THEN "create_own"
                 ELSE IF ~SINGLE_MODEL THEN "create_shared"
                 ELSE "use_shared"]
    /\ UNCHANGED <<hl, now, use_vad, sess, regVars, netVars, workerVars,
                   modelVars, histVars>>

\* lines 551-568: create_model and SINGLE_MODEL = self.transcriber, or
\* self.transcriber = SINGLE_MODEL, or the session's own model; then the
\* worker thread is started and SERVER_READY sent
ConstructorModel(c) ==
    /\ hpc[c] \in {"create_own", "create_shared", "use_shared"}
    /\ hist' = [Models EXCEPT
                  !.created = IF hpc[c] = "use_shared" THEN @ ELSE @ \cup {c},
                  !.transcriber[c] = IF hpc[c] = "use_shared" THEN Models.shared ELSE c,
                  !.shared = IF hpc[c] = "create_shared" THEN c ELSE @]
    /\ SINGLE_MODEL' = (SINGLE_MODEL \/ hpc[c] = "create_shared")
    /\ sess' = [sess EXCEPT ![c] = [NewClient EXCEPT !.use_vad = use_vad]]
    /\ wpc' = [wpc EXCEPT ![c] = "check_exit"]
    /\ IF peer[c] = "closed"
       THEN /\ hpc' = [hpc EXCEPT ![c] = "done"]
            /\ sent' = sent
       ELSE /\ hpc' = [hpc EXCEPT ![c] = "add_client"]
            /\ sent' = Send(c, [uid |-> hl[c].uid, message |-> "SERVER_READY"])
    /\ UNCHANGED <<hl, now, use_vad, peer, out, wl, regVars, single_model,
                   SINGLE_MODEL_LOCK, ret, run>>

\* lines 175 and 35-44: add_client
AddClient(c) ==
    /\ hpc[c] = "add_client"
    /\ clients' = clients \cup {c}
    /\ start_times' = [start_times EXCEPT ![c] = now]
    /\ admitted_at' = [admitted_at EXCEPT ![c] = now]
    /\ hpc' = [hpc EXCEPT ![c] = "is_client_timeout"]
    /\ UNCHANGED <<hl, now, use_vad, sess, netVars, workerVars, modelVars, histVars>>

\* a disconnect that sends nothing
disconnect_m(c) == sent

\* lines 476-487: disconnect; the send raises ConnectionClosed when the peer
\* has gone
disconnect(c) ==
    IF peer[c] = "closed" THEN sent
    ELSE Send(c, [uid |-> hl[c].uid, message |-> "DISCONNECT"])

\* lines 251 and 105-120: is_client_timeout; disconnect() sends DISCONNECT,
\* or raises ConnectionClosed when the peer has gone
IsClientTimeout(c) ==
    /\ hpc[c] = "is_client_timeout"
    /\ IF ClientTimeout(c)
       THEN /\ sent' = disconnect(c)
            /\ hpc' = [hpc EXCEPT ![c] = "finally"]
       ELSE /\ hpc' = [hpc EXCEPT ![c] = "recv"]
            /\ sent' = sent
    /\ UNCHANGED <<hl, now, use_vad, sess, peer, out, regVars, workerVars,
                   modelVars, histVars>>

\* lines 216-219, 187-189: recv() returns END_OF_AUDIO
RecvEndOfAudio(c) ==
    /\ hpc[c] = "recv"
    /\ peer[c] = "open"
    /\ peer' = [peer EXCEPT ![c] = "ended"]
    /\ hpc' = [hpc EXCEPT ![c] = "finally"]
    /\ UNCHANGED <<hl, now, use_vad, sess, sent, out, regVars, workerVars,
                   modelVars, histVars>>

\* a closed connection that ends the handler without its finally block
RecvClosed_m(c) ==
    /\ hpc[c] \in {"handshake", "recv"}
    /\ peer[c] = "closed"
    /\ hpc' = [hpc EXCEPT ![c] = "done"]
    /\ UNCHANGED <<hl, now, use_vad, sess, netVars, regVars, workerVars,
                   modelVars, histVars>>

\* lines 187, 254-255: recv() raises ConnectionClosed
RecvClosed(c) ==
    /\ hpc[c] \in {"handshake", "recv"}
    /\ peer[c] = "closed"
    /\ hpc' = [hpc EXCEPT ![c] = IF hpc[c] = "recv" THEN "finally" ELSE "done"]
    /\ UNCHANGED <<hl, now, use_vad, sess, netVars, regVars, workerVars,
                   modelVars, histVars>>

\* cleanup on every call for which a client object exists
CleanupRuns_m(c) == "exit" \in DOMAIN sess[c]

\* lines 68-69: client = self.clients.pop(websocket, None); if client:
CleanupRuns(c) == c \in clients

\* lines 60-71: remove_client, with the client's cleanup (lines 489-499)
remove_client(c) ==
    /\ clients' = clients \ {c}
    /\ sess' = IF CleanupRuns(c) THEN [sess EXCEPT ![c].exit = TRUE] ELSE sess
    /\ start_times' = [start_times EXCEPT ![c] = None]

\* lines 258-262 and 297-305: finally
Finally(c) ==
    /\ hpc[c] = "finally"
    /\ IF c \in clients
       THEN remove_client(c)
       ELSE UNCHANGED <<clients, sess, start_times>>
    /\ hpc' = [hpc EXCEPT ![c] = "done"]
    /\ UNCHANGED <<hl, now, use_vad, admitted_at, netVars, workerVars,
                   modelVars, histVars>>

(* The environment: the clock and the clients *)

Tick(d) ==
    /\ now + d <= MaxNow
    /\ now' = now + d
    /\ UNCHANGED <<hpc, hl, use_vad, sess, regVars, netVars, workerVars,
                   modelVars, histVars>>

ClientClose(c) ==
    /\ hpc[c] # "absent"
    /\ hpc[c] # "done"
    /\ peer[c] = "open"
    /\ peer' = [peer EXCEPT ![c] = "closed"]
    /\ UNCHANGED <<hpc, hl, now, use_vad, sess, sent, out, regVars, workerVars,
                   modelVars, histVars>>

---------------------------------------------------------------------------
(* ServeClientBase: the audio window.  An array is a sequence of runs       *)
(* [n |-> number of samples, v |-> their value]; adjacent runs of the same  *)
(* value are merged, so equal arrays have equal representations.            *)

NoFrame == [n |-> 0, v |-> 0]

RECURSIVE Shape0(_)
Shape0(a) == IF a = <<>> THEN 0 ELSE Head(a).n + Shape0(Tail(a))

RECURSIVE Drop(_, _)
Drop(a, k) ==
    IF k = 0 \/ a = <<>> THEN a
    ELSE IF Head(a).n <= k THEN Drop(Tail(a), k - Head(a).n)
    ELSE <<[Head(a) EXCEPT !.n = @ - k]>> \o Tail(a)

\* a[k:] with Python's treatment of a negative or too large k
SliceFrom(a, k) ==
    LET len == Shape0(a)
    IN  Drop(a, IF k < 0 THEN Max(len + k, 0) ELSE Min(k, len))

\* np.concatenate((a, frame))
Concatenate(a, frame) ==
    IF frame.n = 0 THEN a
    ELSE IF a # <<>> /\ a[Len(a)].v = frame.v
         THEN [a EXCEPT ![Len(a)].n = @ + frame.n]
         ELSE Append(a, frame)

\* line 371: self.frames_np is not None and self.frames_np[0] > 45 * self.RATE
\* (frames_np[0] is the value of the first sample)
TrimNeeded(c0) == ~c0.frames_none /\ c0.frames_np[1].v > 45 * RATE

\* line 371 raises IndexError on an empty array
TrimRaises(c0) == ~c0.frames_none /\ c0.frames_np = <<>>

\* lines 216-221, 368-372: a frame is received; add_frames takes the lock,
\* tests the buffer and, when it trims, advances frames_offset
RecvFrame(c, frame) ==
    /\ hpc[c] = "recv"
    /\ peer[c] = "open"
    /\ hl[c].frames < MaxFrames
    /\ hl' = [hl EXCEPT ![c].frames = @ + 1, ![c].frame = frame]
    /\ IF TrimRaises(sess[c])
       THEN /\ sess' = [sess EXCEPT ![c].lock = TRUE]
            /\ hpc' = [hpc EXCEPT ![c] = "finally"]
            /\ hist' = hist
       ELSE /\ sess' = [sess EXCEPT
                          ![c].lock = TRUE,
                          ![c].frames_offset =
                              IF TrimNeeded(sess[c]) THEN @ + 30 * RATE ELSE @]
            /\ hpc' = [hpc EXCEPT ![c] =
                          IF TrimNeeded(sess[c]) THEN "add_slice" ELSE "add_concat"]
            /\ hist' = [op |-> "add_frames",
                        shape |-> Shape0(sess[c].frames_np),
                        trimmed |-> TrimNeeded(sess[c]),
                        frames_offset |-> sess[c].frames_offset]
    /\ UNCHANGED <<now, use_vad, regVars, netVars, workerVars, modelVars, ret, run>>

\* line 373: self.frames_np = self.frames_np[int(30 * self.RATE):]
AddSlice(c) ==
    /\ hpc[c] = "add_slice"
    /\ sess' = [sess EXCEPT ![c].frames_np = SliceFrom(@, 30 * RATE)]
    /\ hpc' = [hpc EXCEPT ![c] = "add_fix"]
    /\ UNCHANGED <<hl, now, use_vad, regVars, netVars, workerVars, modelVars, histVars>>

\* lines 377-378
AddFix(c) ==
    /\ hpc[c] = "add_fix"
    /\ sess' = [sess EXCEPT ![c].timestamp_offset =
                    IF @ < sess[c].frames_offset THEN sess[c].frames_offset ELSE @]
    /\ hpc' = [hpc EXCEPT ![c] = "add_concat"]
    /\ UNCHANGED <<hl, now, use_vad, regVars, netVars, workerVars, modelVars, histVars>>

\* lines 381-386: the frame is stored and the lock released
AddConcat(c) ==
    /\ hpc[c] = "add_concat"
    /\ sess' = [sess EXCEPT
                  ![c].frames_np = Concatenate(@, hl[c].frame),
                  ![c].frames_none = FALSE,
                  ![c].lock = FALSE]
    /\ hl' = [hl EXCEPT ![c].frame = NoFrame]
    /\ hpc' = [hpc EXCEPT ![c] = "is_client_timeout"]
    /\ UNCHANGED <<now, use_vad, regVars, netVars, workerVars, modelVars, histVars>>


---------------------------------------------------------------------------
(* ServeClientFasterWhisper.speech_to_text: the worker thread of a client   *)

\* the tentative segment is left out of the message
prepare_segments_m(c0, last_segment) == c0.transcript

\* the whole transcript is sent
prepare_segments_all(c0, last_segment) == c0.transcript \o last_segment

\* lines 433-442
prepare_segments(c0, last_segment) ==
    LET t == c0.transcript
        segments == IF Len(t) >= send_last_n_segments
                    THEN SubSeq(t, Len(t) - send_last_n_segments + 1, Len(t))
                    ELSE t
    IN  segments \o last_segment

\* lines 456-474: a failed send is logged and ignored
send_transcription_to_client(c, segments) ==
    IF peer[c] = "closed" THEN out
    ELSE [out EXCEPT ![c] = segments]

\* lines 793-798: the top of the loop
WorkerTop(c) ==
    /\ wpc[c] = "check_exit"
    /\ wpc' = [wpc EXCEPT ![c] =
                 IF sess[c].exit THEN "exited"
                 ELSE IF sess[c].frames_none THEN "check_exit"
                 ELSE "clip_cond"]
    /\ UNCHANGED <<hpc, hl, now, use_vad, sess, wl, regVars, netVars, modelVars,
                   histVars>>

\* line 394: the test of clip_audio_if_no_valid_segment
WorkerClipCond(c) ==
    /\ wpc[c] = "clip_cond"
    /\ LET c0 == sess[c]
           rest == SliceFrom(c0.frames_np, c0.timestamp_offset - c0.frames_offset)
       IN  wpc' = [wpc EXCEPT ![c] =
                     IF Shape0(rest) > 25 * RATE THEN "clip_duration"
                     ELSE "chunk_take"]
    /\ UNCHANGED <<hpc, hl, now, use_vad, sess, wl, regVars, netVars, modelVars,
                   histVars>>

\* line 395: duration = self.frames_np.shape[0] / self.RATE
WorkerClipDuration(c) ==
    /\ wpc[c] = "clip_duration"
    /\ wl' = [wl EXCEPT ![c].duration = Shape0(sess[c].frames_np)]
    /\ wpc' = [wpc EXCEPT ![c] = "clip_write"]
    /\ UNCHANGED <<hpc, hl, now, use_vad, sess, regVars, netVars, modelVars,
                   histVars>>

\* line 396: self.timestamp_offset = self.frames_offset + duration - 5
WorkerClipWrite(c) ==
    /\ wpc[c] = "clip_write"
    /\ sess' = [sess EXCEPT ![c].timestamp_offset =
                    sess[c].frames_offset + wl[c].duration - 5 * RATE]
    /\ wpc' = [wpc EXCEPT ![c] = "chunk_take"]
    /\ UNCHANGED <<hpc, hl, now, use_vad, wl, regVars, netVars, modelVars,
                   histVars>>

\* line 412: samples_take
WorkerChunkTake(c) ==
    /\ wpc[c] = "chunk_take"
    /\ wl' = [wl EXCEPT ![c].samples_take =
                 Max(0, sess[c].timestamp_offset - sess[c].frames_offset)]
    /\ wpc' = [wpc EXCEPT ![c] = "chunk_slice"]
    /\ UNCHANGED <<hpc, hl, now, use_vad, sess, regVars, netVars, modelVars,
                   histVars>>

\* lines 413-414 and 803-805: the chunk and its duration; a chunk shorter
\* than 1.0 s sends the loop back to its top
WorkerChunkSlice(c) ==
    /\ wpc[c] = "chunk_slice"
    /\ LET duration == Shape0(SliceFrom(sess[c].frames_np, wl[c].samples_take))
       IN  /\ wl' = [wl EXCEPT ![c].duration = duration]
           /\ wpc' = [wpc EXCEPT ![c] =
                        IF duration < RATE THEN "check_exit" ELSE "acquire"]
    /\ UNCHANGED <<hpc, hl, now, use_vad, sess, regVars, netVars, modelVars,
                   histVars>>

\* the number of transcription calls a worker makes is bounded
PollsLeft(c, max) == wl[c].polls < max

\* lines 616-617: with a shared model the global lock is taken
WorkerAcquire(c) ==
    /\ wpc[c] = "acquire"
    /\ IF SINGLE_MODEL
       THEN /\ SINGLE_MODEL_LOCK = None
            /\ SINGLE_MODEL_LOCK' = c
       ELSE SINGLE_MODEL_LOCK' = SINGLE_MODEL_LOCK
    /\ wl' = [wl EXCEPT ![c].polls = @ + 1]
    /\ wpc' = [wpc EXCEPT ![c] = "transcribe"]
    /\ UNCHANGED <<hpc, hl, now, use_vad, sess, regVars, netVars, single_model,
                   SINGLE_MODEL, histVars>>

\* lines 619-630: transcribe returns a list of segments, and the lock is
\* released
WorkerTranscribed(c, result) ==
    /\ wpc[c] = "transcribe"
    /\ wl' = [wl EXCEPT ![c].result = result, ![c].no_result = FALSE]
    /\ SINGLE_MODEL_LOCK' = IF SINGLE_MODEL THEN None ELSE SINGLE_MODEL_LOCK
    /\ wpc' = [wpc EXCEPT ![c] = "handle"]
    /\ UNCHANGED <<hpc, hl, now, use_vad, sess, regVars, netVars, single_model,
                   SINGLE_MODEL, histVars>>

\* lines 619-630, 811: transcribe returns None, and the lock is released
WorkerNoResult(c) ==
    /\ wpc[c] = "transcribe"
    /\ wl' = [wl EXCEPT ![c].result = <<>>, ![c].no_result = TRUE]
    /\ SINGLE_MODEL_LOCK' = IF SINGLE_MODEL THEN None ELSE SINGLE_MODEL_LOCK
    /\ wpc' = [wpc EXCEPT ![c] = "handle"]
    /\ UNCHANGED <<hpc, hl, now, use_vad, sess, regVars, netVars, single_model,
                   SINGLE_MODEL, histVars>>

\* lines 619, 817-819: transcribe raises; the exception leaves
\* transcribe_audio before line 628 and is caught by the loop
WorkerTranscribeRaises(c) ==
    /\ wpc[c] = "transcribe"
    /\ wpc' = [wpc EXCEPT ![c] = "check_exit"]
    /\ wl' = [wl EXCEPT ![c].raised = TRUE]
    /\ UNCHANGED <<hpc, hl, now, use_vad, sess, regVars, netVars, modelVars,
                   histVars>>

\* a no-result poll that leaves the cursor where it is
WorkerHandleNoResult_m(c) ==
    /\ wpc[c] = "handle"
    /\ wl[c].no_result
    /\ wl' = [wl EXCEPT ![c].ts = sess[c].timestamp_offset, ![c].offset = None]
    /\ wpc' = [wpc EXCEPT ![c] = "update_offset"]
    /\ UNCHANGED <<hpc, hl, now, use_vad, sess, regVars, netVars, modelVars,
                   histVars>>

\* lines 811-812: no result, self.timestamp_offset is read for "+= duration"
WorkerHandleNoResult(c) ==
    /\ wpc[c] = "handle"
    /\ wl[c].no_result
    /\ wl' = [wl EXCEPT ![c].ts = sess[c].timestamp_offset,
                        ![c].offset = wl[c].duration]
    /\ wpc' = [wpc EXCEPT ![c] = "update_offset"]
    /\ UNCHANGED <<hpc, hl, now, use_vad, sess, regVars, netVars, modelVars,
                   histVars>>

\* lines 765-767, 700-748: segments were returned; update_segments up to
\* "update offset"
WorkerHandleSegments(c) ==
    /\ wpc[c] = "handle"
    /\ ~wl[c].no_result
    /\ Len(wl[c].result) > 0
    /\ LET ts == sess[c].timestamp_offset
           r == update_segments_body([sess[c] EXCEPT !.t_start = None], ts,
                                     wl[c].result, wl[c].duration)
       IN  /\ sess' = [sess EXCEPT ![c] = r.client]
           /\ wl' = [wl EXCEPT ![c].ts = ts, ![c].offset = r.offset,
                               ![c].last_segment = r.last_segment]
    /\ wpc' = [wpc EXCEPT ![c] = "update_offset"]
    /\ UNCHANGED <<hpc, hl, now, use_vad, regVars, netVars, modelVars, histVars>>

\* lines 751-752 / 812 and 768-774: the offset is written back, the segments
\* are prepared and sent
WorkerUpdateOffset(c) ==
    /\ wpc[c] = "update_offset"
    /\ sess' = [sess EXCEPT ![c].timestamp_offset =
                    IF wl[c].offset # None THEN wl[c].ts + wl[c].offset ELSE @]
    /\ LET segments == prepare_segments(sess[c], wl[c].last_segment)
       IN  /\ out' = IF ~wl[c].no_result /\ Len(segments) > 0
                     THEN send_transcription_to_client(c, segments)
                     ELSE out
           /\ ret' = IF wl[c].no_result THEN ret ELSE wl[c].last_segment
    /\ wl' = [wl EXCEPT ![c] = [NoLocals EXCEPT !.polls = wl[c].polls, !.raised = wl[c].raised]]
    /\ wpc' = [wpc EXCEPT ![c] = "check_exit"]
    /\ UNCHANGED <<hpc, hl, now, use_vad, sent, peer, regVars, modelVars, run, hist>>

\* a blank entry on every idle poll after the threshold
AddPause_m(text, elapsed) == Len(text) > 0 /\ elapsed > add_pause_thresh

\* lines 654-655: a blank entry is appended to a text history that is not
\* empty and does not end with one, after more than add_pause_thresh seconds
AddPause(text, elapsed) ==
    /\ Len(text) > 0
    /\ text[Len(text)] # <<>>
    /\ elapsed > add_pause_thresh

\* history of the idle polls (polls that return no segment) of one pause:
\* the text history the pause began with, when it began, the time of the
\* latest idle poll, and the number of idle polls and of blanks appended
IdlePolls(c0, t_start, pause) ==
    IF c0.t_start = None \/ hist.op # "idle"
    THEN [op |-> "idle", text |-> c0.text, t_start |-> t_start, last |-> now,
          polls |-> 1, blanks |-> IF pause THEN 1 ELSE 0]
    ELSE [hist EXCEPT !.last = now, !.polls = Min(@ + 1, MaxPausePolls),
                      !.blanks = @ + (IF pause THEN 1 ELSE 0)]

\* lines 769-774, 647-657: no segments; get_previous_output
WorkerHandleEmpty(c) ==
    /\ wpc[c] = "handle"
    /\ ~wl[c].no_result
    /\ Len(wl[c].result) = 0
    /\ LET c0 == sess[c]
           t_start == IF c0.t_start = None THEN now ELSE c0.t_start
           segments == IF now - t_start < show_prev_out_thresh
                       THEN prepare_segments(c0, <<>>) ELSE <<>>
           pause == AddPause(c0.text, now - t_start)
       IN  /\ sess' = [sess EXCEPT ![c].t_start = t_start,
                                   ![c].text = IF pause THEN Append(@, <<>>) ELSE @]
           /\ out' = IF Len(segments) > 0
                     THEN send_transcription_to_client(c, segments)
                     ELSE out
           /\ hist' = IdlePolls(c0, t_start, pause)
    /\ wl' = [wl EXCEPT ![c] = [NoLocals EXCEPT !.polls = wl[c].polls, !.raised = wl[c].raised]]
    /\ wpc' = [wpc EXCEPT ![c] = "check_exit"]
    /\ UNCHANGED <<hpc, hl, now, use_vad, sent, peer, regVars, modelVars, ret, run>>


---------------------------------------------------------------------------
(* SpecAdmit: NumConns clients connect at any time; they send their         *)
(* handshake and then nothing; the clock may jump past the lifetime.        *)

\* the handshake of a client; frames and frame are the handler's own locals
Options(v) == [use_vad |-> v, uid |-> "u", model |-> "base.en",
               frame |-> NoFrame, frames |-> 0]

\* a handshake that names a model size the server does not know
UnknownModelOptions == [Options(TRUE) EXCEPT !.model = "large"]

InitAdmit ==
    /\ hpc = [c \in Conns |-> "handshake"]
    /\ hl = [c \in Conns |-> <<>>]
    /\ sess = [c \in Conns |-> NoClient]
    /\ wpc = [c \in Conns |-> "none"]
    /\ wl = [c \in Conns |-> NoLocals]
    /\ single_model = FALSE
    /\ InitRegistry /\ InitModel /\ InitHistory

AdmitTicks == {max_connection_time + 1}

NextAdmit ==
    \/ \E c \in Conns : Handshake(c, Options(TRUE))
    \/ \E c \in Conns : IsServerFull(c)
    \/ \E c \in Conns : InitializeClient(c)
    \/ \E c \in Conns : AddClient(c)
    \/ \E c \in Conns : IsClientTimeout(c)
    \/ \E c \in Conns : Finally(c)
    \/ \E d \in AdmitTicks : Tick(d)

SpecAdmit == InitAdmit /\ [][NextAdmit]_vars


---------------------------------------------------------------------------
(* SpecSession: one client streams audio frames while its worker thread     *)
(* polls; every interleaving of the handler's add_frames with the worker.   *)

InitConns(k) ==
    /\ hpc = [c \in Conns |-> IF c <= k THEN "handshake" ELSE "absent"]
    /\ hl = [c \in Conns |-> <<>>]
    /\ sess = [c \in Conns |-> NoClient]
    /\ wpc = [c \in Conns |-> "none"]
    /\ wl = [c \in Conns |-> NoLocals]
    /\ InitRegistry /\ InitModel /\ InitHistory

InitSession == InitConns(1) /\ single_model = FALSE

FQuiet == [n |-> 23 * RATE, v |-> 0]
FLoud  == [n |-> 26 * RATE, v |-> 45 * RATE + 1]
FShort == [n |-> RATE, v |-> 0]

SessionFrames == {FQuiet, FLoud, FShort}
SessionResults == {<<SegA>>, <<SegB, SegA>>}

\* the results the capability may return while the transcript is short
Fits(c, result) ==
    /\ wpc[c] = "transcribe"
    /\ Len(sess[c].transcript) + Len(result) <= MaxTranscript
    /\ Len(sess[c].text) + Len(result) <= MaxText

Admission(c) ==
    \/ Handshake(c, Options(TRUE))
    \/ IsServerFull(c)
    \/ InitializeClient(c)
    \/ AddClient(c)

AddFrames(c, frames) ==
    \/ \E frame \in frames : RecvFrame(c, frame)
    \/ AddSlice(c)
    \/ AddFix(c)
    \/ AddConcat(c)

WorkerWindow(c) ==
    \/ WorkerTop(c)
    \/ WorkerClipCond(c)
    \/ WorkerClipDuration(c)
    \/ WorkerClipWrite(c)
    \/ WorkerChunkTake(c)
    \/ WorkerChunkSlice(c)

WorkerPoll(c, results) ==
    \/ PollsLeft(c, MaxPolls) /\ WorkerAcquire(c)
    \/ \E result \in results : Fits(c, result) /\ WorkerTranscribed(c, result)
    \/ WorkerTranscribed(c, <<>>)
    \/ WorkerNoResult(c)
    \/ WorkerTranscribeRaises(c)
    \/ WorkerHandleNoResult(c)
    \/ WorkerHandleSegments(c)
    \/ WorkerHandleEmpty(c)
    \/ WorkerUpdateOffset(c)

NextSession ==
    \/ Admission(1)
    \/ IsClientTimeout(1)
    \/ AddFrames(1, SessionFrames)
    \/ RecvEndOfAudio(1)
    \/ Finally(1)
    \/ WorkerWindow(1)
    \/ WorkerPoll(1, SessionResults)

SpecSession == InitSession /\ [][NextSession]_vars


---------------------------------------------------------------------------
(* SpecModel: two clients, with a model per client or one shared model.     *)
(* Each sends its handshake and one frame of two seconds, and then nothing  *)
(* or closes its connection; the worker threads poll, and a transcription   *)
(* call may return segments, return None or raise.                          *)

InitShared == InitConns(2) /\ single_model \in BOOLEAN

ModelConns == {1, 2}
ModelFrame == [n |-> 2 * RATE, v |-> 0]
ModelResults == {<<SegA>>}

\* the first frame of a client: the window is None, nothing is trimmed
FirstFrame(c) ==
    /\ hpc[c] = "recv"
    /\ hl[c].frames = 0
    /\ RecvFrame(c, ModelFrame)

\* the worker loop on a window that never holds more than 25 s: the test of
\* line 394 is false and lines 395-396 are not reached
WorkerShortWindow(c) ==
    \/ WorkerTop(c)
    \/ WorkerClipCond(c)
    \/ WorkerChunkTake(c)
    \/ WorkerChunkSlice(c)

WorkerCalls(c, results) ==
    \/ PollsLeft(c, MaxPolls) /\ WorkerAcquire(c)
    \/ \E result \in results : Fits(c, result) /\ WorkerTranscribed(c, result)
    \/ WorkerNoResult(c)
    \/ WorkerTranscribeRaises(c)
    \/ WorkerHandleNoResult(c)
    \/ WorkerHandleSegments(c)
    \/ WorkerUpdateOffset(c)

NextModel ==
    \E c \in ModelConns :
        \/ Admission(c)
        \/ IsClientTimeout(c)
        \/ FirstFrame(c)
        \/ AddConcat(c)
        \/ ClientClose(c)
        \/ RecvClosed(c)
        \/ Finally(c)
        \/ WorkerShortWindow(c)
        \/ WorkerCalls(c, ModelResults)

SpecModel == InitShared /\ [][NextModel]_vars

---------------------------------------------------------------------------
(* SpecRemove: two clients are admitted and send nothing or END_OF_AUDIO;   *)
(* remove_client is called on admitted websockets any number of times, by   *)
(* the handler's cleanup and directly.                                      *)

MaxRemoves == 3

NoRemoves == [c \in Conns |-> 0]

\* a call of ClientManager.remove_client; hist records the call, the state
\* it found, and how many calls and cleanups each websocket has had
RemoveCall(c) ==
    LET calls    == IF hist.op = "remove_client" THEN hist.calls ELSE NoRemoves
        cleanups == IF hist.op = "remove_client" THEN hist.cleanups ELSE NoRemoves
    IN  /\ admitted_at[c] # None
        /\ calls[c] < MaxRemoves
        /\ remove_client(c)
        /\ hist' = [op |-> "remove_client", ws |-> c,
                    cleanup |-> CleanupRuns(c),
                    pre_clients |-> clients,
                    changed |-> <<clients', start_times', sess'>> #
                                <<clients, start_times, sess>>,
                    calls |-> [calls EXCEPT ![c] = @ + 1],
                    cleanups |-> [cleanups EXCEPT ![c] =
                                     @ + (IF CleanupRuns(c) THEN 1 ELSE 0)]]
        /\ UNCHANGED <<hpc, hl, now, use_vad, admitted_at, netVars, workerVars,
                       modelVars, ret, run>>

InitRemove == InitConns(2) /\ single_model = FALSE

NextRemove ==
    \E c \in ModelConns :
        \/ Admission(c)
        \/ IsClientTimeout(c)
        \/ RecvEndOfAudio(c)
        \/ Finally(c)
        \/ RemoveCall(c)

SpecRemove == InitRemove /\ [][NextRemove]_vars

---------------------------------------------------------------------------
(* SpecLife: two clients connect, send a frame, END_OF_AUDIO or nothing,    *)
(* and may close their connection at any time, while the clock advances     *)
(* past the lifetime.  The handler threads keep running: a handler step     *)
(* that does not wait for the client is eventually taken.                   *)

InitLife == InitConns(2) /\ single_model = FALSE

LifeTicks == {max_connection_time \div 2, max_connection_time \div 2 + 1}

\* the steps of a handler thread that wait for nothing from the client
HandlerStep(c) ==
    \/ IsServerFull(c)
    \/ InitializeClient(c)
    \/ AddClient(c)
    \/ IsClientTimeout(c)
    \/ AddConcat(c)
    \/ RecvClosed(c)
    \/ Finally(c)

\* what the client does
ClientStep(c) ==
    \/ Handshake(c, Options(TRUE))
    \/ FirstFrame(c)
    \/ RecvEndOfAudio(c)
    \/ ClientClose(c)

NextLife ==
    \/ \E c \in ModelConns : HandlerStep(c)
    \/ \E c \in ModelConns : ClientStep(c)
    \/ \E d \in LifeTicks : Tick(d)

SpecLife ==
    /\ InitLife
    /\ [][NextLife]_vars
    /\ \A c \in ModelConns : WF_vars(HandlerStep(c))

---------------------------------------------------------------------------
(* SpecHandshake: two clients connect with a handshake that is well-formed, *)
(* names an unknown model or is not JSON, with the server's own model path  *)
(* or without; they may close their connection at any time.                 *)

InitHandshake == InitConns(2) /\ single_model \in BOOLEAN

HandshakeOptions == {Options(TRUE), Options(FALSE), UnknownModelOptions}

NextHandshake ==
    \E c \in ModelConns :
        \/ \E options \in HandshakeOptions : Handshake(c, options)
        \/ HandshakeMalformed(c)
        \/ IsServerFull(c)
        \/ InitializeClient(c)
        \/ AddClient(c)
        \/ IsClientTimeout(c)
        \/ ClientClose(c)
        \/ RecvClosed(c)
        \/ Finally(c)

SpecHandshake == InitHandshake /\ [][NextHandshake]_vars

---------------------------------------------------------------------------
(* SpecCreate: two connections whose handlers run the constructor of the    *)
(* client object step by step, with and without the shared model.           *)

InitCreate == InitConns(2) /\ single_model \in BOOLEAN

CreateOptions == {Options(TRUE), Options(FALSE)}

NextCreate ==
    \E c \in ModelConns :
        \/ \E options \in CreateOptions : Handshake(c, options)
        \/ IsServerFull(c)
        \/ ConstructorTest(c)
        \/ ConstructorModel(c)
        \/ AddClient(c)
        \/ IsClientTimeout(c)
        \/ ClientClose(c)
        \/ RecvClosed(c)
        \/ Finally(c)

SpecCreate == InitCreate /\ [][NextCreate]_vars

---------------------------------------------------------------------------
(* SpecOutgoing: one client sends one long frame; the worker polls it       *)
(* second by second and the transcript grows beyond send_last_n_segments.   *)

OutgoingSeconds == 14
OutgoingFrame == [n |-> OutgoingSeconds * RATE, v |-> 0]
OutgoingResults == {<<SegB, SegA>>, <<SegB, SegN>>, <<SegN>>}

NextOutgoing ==
    \/ Admission(1)
    \/ IsClientTimeout(1)
    \/ hpc[1] = "recv" /\ hl[1].frames = 0 /\ RecvFrame(1, OutgoingFrame)
    \/ AddConcat(1)
    \/ WorkerShortWindow(1)
    \/ PollsLeft(1, MaxOutPolls) /\ WorkerAcquire(1)
    \/ \E result \in OutgoingResults :
          /\ wpc[1] = "transcribe"
          /\ Len(sess[1].transcript) < MaxSent
          /\ WorkerTranscribed(1, result)
    \/ WorkerTranscribed(1, <<>>)
    \/ WorkerNoResult(1)
    \/ WorkerHandleNoResult(1)
    \/ WorkerHandleSegments(1)
    \/ WorkerHandleEmpty(1)
    \/ WorkerUpdateOffset(1)

SpecOutgoing == InitSession /\ [][NextOutgoing]_vars

---------------------------------------------------------------------------
(* SpecPause: one client sends one frame of two seconds; the worker's       *)
(* transcription calls return two segments or none, while the clock         *)
(* advances by seconds.                                                     *)

InitPause == InitConns(1) /\ single_model = FALSE

\* the transcription of "hi there": [0.0 s, 1.0 s] and [1.0 s, 1.9 s]
SegHi == [start |-> 0, end |-> RATE, text |-> <<"h", "i">>, no_speech_prob |-> 10]
SegThere == [start |-> RATE, end |-> RATE + (9 * RATE) \div 10,
             text |-> <<"t", "h", "e", "r", "e">>, no_speech_prob |-> 10]
HiThere == <<SegHi, SegThere>>

PauseResults == {<<SegB, SegA>>, <<SegA>>, HiThere}
PauseTicks == {1, 2}

NextPause ==
    \/ Admission(1)
    \/ IsClientTimeout(1)
    \/ FirstFrame(1)
    \/ AddConcat(1)
    \/ WorkerShortWindow(1)
    \/ PollsLeft(1, MaxPausePolls) /\ WorkerAcquire(1)
    \/ \E result \in PauseResults : Fits(1, result) /\ WorkerTranscribed(1, result)
    \/ WorkerTranscribed(1, <<>>)
    \/ WorkerHandleSegments(1)
    \/ WorkerHandleEmpty(1)
    \/ WorkerUpdateOffset(1)
    \/ \E d \in PauseTicks : now + d <= MaxPause /\ Tick(d)

SpecPause == InitPause /\ [][NextPause]_vars

---------------------------------------------------------------------------
(* Claims about the stabilizer (SpecStab) *)

\* C5 (as stated): after any sequence of update_segments calls, consecutive
\* committed entries have non-decreasing start and every committed entry has
\* end > start.
C5_MonotonicTranscript ==
    LET t == sess[1].transcript
    IN  /\ \A i \in 1..(Len(t) - 1) : t[i].start <= t[i + 1].start
        /\ \A i \in 1..Len(t) : t[i].end > t[i].start

\* C6 (as stated): from previousPendingText empty and repeatCount 0, the 6th
\* identical single-segment call has committed exactly one entry, returns no
\* tentative segment and leaves repeatCount 0.
C6_SixCallsCommit ==
    run.n = 6 =>
        /\ Len(sess[1].transcript) = run.base + 1
        /\ ret = <<>>
        /\ sess[1].same_output_threshold = 0

\* C6 (amended): for a text that is non-blank after trimming, the first six
\* identical calls commit nothing, return the tentative segment and leave
\* repeatCount at (number of calls - 1); the 7th call returns no tentative
\* segment, resets repeatCount to 0 and commits exactly one entry when the
\* text history was empty or ended with a different text (trimmed,
\* case-insensitive), and no entry otherwise.
C6_SevenCallsCommit ==
    /\ run.n \in 1..6 =>
          /\ Len(sess[1].transcript) = run.base
          /\ sess[1].same_output_threshold = run.n - 1
          /\ ret # <<>>
    /\ run.n = 7 =>
          /\ Len(sess[1].transcript) = run.base + (IF run.differs THEN 1 ELSE 0)
          /\ ret = <<>>
          /\ sess[1].same_output_threshold = 0

C6_Witness ==
    /\ run.n = 7
    /\ run.differs
    /\ Len(sess[1].transcript) = run.base + 1
    /\ sess[1].transcript[run.base + 1].text = run.segments[1].text

HighNoSpeech(s) == s.no_speech_prob > no_speech_thresh

\* C7: in any update_segments call, a raw segment with no_speech_prob above
\* the threshold adds no transcript entry and is not returned as the
\* tentative segment; when it is the last segment, current_out is empty,
\* same_output_threshold is 0 and no stability commit happens.
C7_NoSpeechFiltered ==
    hist.op = "update_segments" =>
        LET segs == hist.segments
            pre  == hist.pre
            post == sess[1]
            n    == Len(segs)
            new  == SubSeq(post.transcript, Len(pre.transcript) + 1,
                           Len(post.transcript))
            speech == {i \in 1..n : ~HighNoSpeech(segs[i])}
        IN  /\ SubSeq(post.transcript, 1, Len(pre.transcript)) = pre.transcript
            /\ \A k \in 1..Len(new) : \E i \in speech : new[k].text = segs[i].text
            /\ Len(new) <= Cardinality(speech)
            /\ ret # <<>> => (~HighNoSpeech(segs[n]) /\ ret[1].text = segs[n].text)
            /\ HighNoSpeech(segs[n]) =>
                  /\ ret = <<>>
                  /\ post.current_out = <<>>
                  /\ post.same_output_threshold = 0
                  /\ Len(new) <= Cardinality(speech \ {n})

C7_Witness ==
    /\ hist.op = "update_segments"
    /\ Len(hist.segments) = 2
    /\ HighNoSpeech(hist.segments[1])
    /\ HighNoSpeech(hist.segments[2])
    /\ hist.pre.same_output_threshold = same_output_limit
    /\ sess[1].same_output_threshold = 0
    /\ sess[1].transcript = hist.pre.transcript


---------------------------------------------------------------------------
(* Claims about the stability commit (SpecCommit) *)

\* C25 (as stated): in an update_segments call in which same_output_threshold
\* exceeds 5, current_out is appended to the transcript, as the entry
\* (timestamp_offset, timestamp_offset + duration, current_out), exactly when
\* its stripped lower-case form differs from that of the text of the last
\* transcript entry (there being none counts as differing); in both cases
\* nothing is returned, timestamp_offset advances by duration and
\* same_output_threshold becomes 0.
C25_CommitOnStability ==
    hist.op = "update_segments" =>
        LET pre  == hist.pre
            post == sess[1]
            segs == hist.segments
            last == segs[Len(segs)]
            pending == IF HighNoSpeech(last) THEN <<>> ELSE last.text
            exceeds == /\ pending # <<>>
                       /\ strip(pending) = strip(pre.prev_out)
                       /\ pre.same_output_threshold + 1 > 5
            n == Len(post.transcript)
            appended == /\ n > 0
                        /\ post.transcript[n] =
                              format_segment(pre.timestamp_offset,
                                             pre.timestamp_offset + hist.duration,
                                             pending)
            committed == IF appended THEN SubSeq(post.transcript, 1, n - 1)
                         ELSE post.transcript
            differs == \/ committed = <<>>
                       \/ lower(strip(committed[Len(committed)].text))
                              # lower(strip(pending))
        IN  exceeds =>
               /\ appended <=> differs
               /\ ret = <<>>
               /\ post.timestamp_offset = pre.timestamp_offset + hist.duration
               /\ post.same_output_threshold = 0

---------------------------------------------------------------------------
(* Claims about admission (SpecAdmit) *)

\* C1 (as stated): under every interleaving of the connection handlers, the
\* registry holds at most max_clients sessions in every reachable state.
C1_AtMostMaxClients == Cardinality(clients) <= max_clients

HasClient(c) == "exit" \in DOMAIN sess[c]

HasMessage(c, field, value) ==
    \E i \in 1..Len(sent[c]) :
        field \in DOMAIN sent[c][i] /\ sent[c][i][field] = value

IsWait(msg) == "status" \in DOMAIN msg /\ msg.status = "WAIT"

\* C2 (as stated): the wait estimate carried by every WAIT message is the
\* minimum remaining lifetime in minutes floored at 0, hence never negative.
C2_WaitNonNegative ==
    \A c \in Conns : \A i \in 1..Len(sent[c]) :
        IsWait(sent[c][i]) => sent[c][i].message.num >= 0

\* C3 (as stated): a session admitted at t0 is absent from the registry at
\* every time after t0 + max_connection_time, a DISCONNECT message having
\* been sent before, whatever the client does (here: it sends nothing).
\* A handler that is just running its lifetime check or its cleanup is given
\* the time to finish.
C3_AbsentAfterLifetime ==
    \A c \in Conns :
        (/\ admitted_at[c] # None
         /\ now > admitted_at[c] + max_connection_time
         /\ hpc[c] \notin {"is_client_timeout", "finally"}) =>
            /\ c \notin clients
            /\ \E i \in 1..Len(sent[c]) :
                  /\ "message" \in DOMAIN sent[c][i]
                  /\ sent[c][i].message = "DISCONNECT"

\* C16: a connection is rejected exactly when is_server_full finds
\* max_clients or more sessions registered; the rejected client is sent one
\* WAIT message and nothing else, the handler ends (closing the connection),
\* no client object and no worker thread exist for it, and the step leaves
\* clients and start_times unchanged.
C16_RejectionNoSession ==
    /\ [](\A c \in Conns :
            (hpc[c] = "done" /\ HasMessage(c, "status", "WAIT")) =>
               /\ Len(sent[c]) = 1
               /\ ~HasClient(c)
               /\ wpc[c] = "none"
               /\ c \notin clients
               /\ start_times[c] = None)
    /\ [][\A c \in Conns :
            (hpc[c] = "is_server_full" /\ hpc'[c] # hpc[c]) =>
               /\ hpc'[c] = "done" <=> Cardinality(clients) >= max_clients
               /\ hpc'[c] = "done" =>
                     /\ Len(sent'[c]) = 1
                     /\ IsWait(sent'[c][1])
                     /\ UNCHANGED <<clients, start_times, sess, wpc>>]_vars

C16_Witness ==
    \E c \in Conns :
        /\ hpc[c] = "done"
        /\ Len(sent[c]) = 1
        /\ IsWait(sent[c][1])
        /\ Cardinality(clients) = max_clients
        /\ ~HasClient(c)

---------------------------------------------------------------------------
(* Claims about the audio window (SpecSession) *)

\* C4 (as stated): add_frames trims (drops the oldest 30 s and advances
\* frames_offset by 30) exactly when the window it finds holds more than
\* 45 s of audio, i.e. more than 45 * RATE samples.
C4_TrimIffOver45s ==
    hist.op = "add_frames" => (hist.trimmed <=> hist.shape > 45 * RATE)

\* C8 (as stated): under every interleaving of add_frames with the worker
\* loop, timestamp_offset >= frames_offset (whenever add_frames is not in
\* the middle of its critical section).
C8_CursorNotBeforeOrigin ==
    \A c \in Conns :
        (HasClient(c) /\ ~sess[c].lock) =>
            sess[c].timestamp_offset >= sess[c].frames_offset

\* C18 (as stated): when clip_audio_if_no_valid_segment runs on a window
\* whose unprocessed region, Shape0 - (timestamp_offset - frames_offset)
\* samples, exceeds 25 s, timestamp_offset becomes frames_offset + window
\* duration - 5 s, strictly greater than before and not below frames_offset;
\* when the region is 25 s or less, timestamp_offset is unchanged.
C18_StallClip ==
    [][\A c \in Conns :
          /\ (wpc[c] = "clip_cond" /\ wpc'[c] # wpc[c]) =>
                LET region == Shape0(sess[c].frames_np)
                                - (sess[c].timestamp_offset - sess[c].frames_offset)
                IN  /\ wpc'[c] = "clip_duration" <=> region > 25 * RATE
                    /\ region <= 25 * RATE =>
                          sess'[c].timestamp_offset = sess[c].timestamp_offset
          /\ (wpc[c] = "clip_write" /\ wpc'[c] # wpc[c]) =>
                /\ sess'[c].timestamp_offset =
                      sess[c].frames_offset + Shape0(sess[c].frames_np) - 5 * RATE
                /\ sess'[c].timestamp_offset > sess[c].timestamp_offset
                /\ sess'[c].timestamp_offset >= sess'[c].frames_offset]_vars

\* the worker of c has read the window or the offsets and has not yet used
\* what it read (lines 394-396, 412-414)
WorkerMidRead(c) == wpc[c] \in {"clip_duration", "clip_write", "chunk_slice"}

\* C21 (as stated): the worker reads and writes the window, frames_offset
\* and timestamp_offset under the lock that add_frames holds: while the
\* worker is between a read and its use, add_frames is not inside its
\* critical section and no step other than the worker's own changes the
\* window or the offsets; the chunk of get_audio_chunk_for_processing is the
\* suffix of the current window that starts at timestamp_offset.
C21_WorkerUnderSessionLock ==
    [][\A c \in Conns :
          (HasClient(c) /\ WorkerMidRead(c)) =>
             /\ ~sess[c].lock
             /\ wpc'[c] = wpc[c] =>
                   /\ sess'[c].frames_np = sess[c].frames_np
                   /\ sess'[c].frames_offset = sess[c].frames_offset
                   /\ sess'[c].timestamp_offset = sess[c].timestamp_offset
             /\ (wpc[c] = "chunk_slice" /\ wpc'[c] # wpc[c]) =>
                   wl'[c].duration =
                       Shape0(SliceFrom(sess[c].frames_np,
                                        Max(0, sess[c].timestamp_offset
                                                 - sess[c].frames_offset)))]_vars

\* C22 (as stated): no step of any execution lowers the timestamp_offset of
\* a session, whatever the interleaving of add_frames (lines 371-378) with
\* the worker's writes (lines 396, 751-752, 812).
C22_CursorMonotonic ==
    [][\A c \in Conns :
          (HasClient(c) /\ HasClient(c)') =>
              sess'[c].timestamp_offset >= sess[c].timestamp_offset]_vars

---------------------------------------------------------------------------
(* Claims about transcription failures (SpecModel) *)

\* the shared model lock is held by a worker that has left transcribe_audio:
\* no release() will ever follow
LockLeaked ==
    /\ SINGLE_MODEL
    /\ SINGLE_MODEL_LOCK # None
    /\ wpc[SINGLE_MODEL_LOCK] # "transcribe"

\* C9 (as stated): after a transcription call of a session has raised, with
\* a model per session and with the shared model alike, the session's worker
\* is never blocked: when it next reaches the transcription call it is not
\* waiting for a lock that nobody will release.
C9_WorkerNotBlockedAfterError ==
    \A c \in Conns :
        (wl[c].raised /\ wpc[c] = "acquire") => ~LockLeaked

\* C10 (as stated): with two sessions sharing the single model, after a
\* transcription call of session a has raised, the worker of another session
\* b can still make its transcription calls: it never waits for a lock that
\* a's failed call left held.
C10_OtherSessionNotBlocked ==
    \A a \in Conns : \A b \in Conns \ {a} :
        (wl[a].raised /\ ~wl[b].raised /\ wpc[b] = "acquire") =>
            ~(LockLeaked /\ SINGLE_MODEL_LOCK = a)

\* the workers that are inside self.transcriber.transcribe (lines 619-625)
InTranscribe == {c \in Conns : wpc[c] = "transcribe"}

\* C23 (as stated): with the shared model at most one worker is inside the
\* transcription call, and SINGLE_MODEL_LOCK is held exactly while a call is
\* in progress, by the worker that makes it: it is free whenever no worker is
\* inside a call, also after a call that raised.
C23_SharedModelSerialized ==
    SINGLE_MODEL =>
        /\ Cardinality(InTranscribe) <= 1
        /\ SINGLE_MODEL_LOCK = None <=> InTranscribe = {}
        /\ SINGLE_MODEL_LOCK # None => InTranscribe = {SINGLE_MODEL_LOCK}

---------------------------------------------------------------------------
(* Claims about cancellation and removal (SpecModel) *)

\* C11 (as stated): once cleanup has set a session's exit flag, its worker
\* loop eventually observes it and exits, from every state the worker can
\* be in, every transcription call returning or raising.  Hence a worker
\* whose exit flag is set is never waiting, before a transcription call,
\* for a lock that no thread will release: from there it never reaches the
\* test of line 794 again.
C11_StopObserved ==
    \A c \in Conns :
        (HasClient(c) /\ sess[c].exit /\ wpc[c] = "acquire") => ~LockLeaked

\* C12 (as stated): when removal has completed (remove_client has returned
\* and the handler has closed the connection) the exit flag is set and the
\* worker loop has already exited, so that no worker iteration goes on after
\* removal.  A worker that stands at the top of its loop, about to read the
\* flag, is counted as exited.
C12_RemovalAwaitsWorker ==
    \A c \in Conns :
        (HasClient(c) /\ admitted_at[c] # None /\ hpc[c] = "done") =>
            /\ sess[c].exit
            /\ wpc[c] \in {"exited", "check_exit"}

---------------------------------------------------------------------------
(* Claims about removal (SpecRemove) *)

\* C13: remove_client is idempotent and runs the client's cleanup once: over
\* any sequence of calls on an admitted websocket the cleanup runs at most
\* once, on the first call that finds the entry; a call that finds no entry
\* (every call after the first) runs no cleanup and changes neither table
\* nor any client object; after
\* every call clients and start_times hold no entry for the websocket.
C13_RemoveIdempotent ==
    hist.op = "remove_client" =>
        LET c == hist.ws
        IN  /\ c \notin clients
            /\ start_times[c] = None
            /\ hist.cleanups[c] <= 1
            /\ hist.cleanup <=> c \in hist.pre_clients
            /\ hist.cleanup => sess[c].exit
            /\ hist.calls[c] > 1 => (~hist.cleanup /\ ~hist.changed)
            /\ ~hist.cleanup => ~hist.changed

C13_Witness ==
    /\ hist.op = "remove_client"
    /\ hist.calls[hist.ws] = MaxRemoves
    /\ hist.cleanups[hist.ws] = 1
    /\ ~hist.changed
    /\ sess[hist.ws].exit

---------------------------------------------------------------------------
(* Claims about the end of a connection (SpecLife) *)

Disconnected(c) ==
    \E i \in 1..Len(sent[c]) :
        "message" \in DOMAIN sent[c][i] /\ sent[c][i].message = "DISCONNECT"

\* C14: when is_client_timeout finds the lifetime exceeded (and the peer is
\* still connected), the DISCONNECT message is sent in that step, while the
\* exit flag is not yet set and the registry entry is still there; the flag
\* is set and the entry removed only afterwards, in the handler's finally
\* block.
C14_DisconnectBeforeCancel ==
    [][\A c \in Conns :
          /\ (/\ hpc[c] = "is_client_timeout"
              /\ hpc'[c] = "finally"
              /\ peer[c] # "closed") =>
                 /\ sent'[c] = Append(sent[c], [uid |-> hl[c].uid,
                                                message |-> "DISCONNECT"])
                 /\ ~sess'[c].exit
                 /\ c \in clients'
          /\ (/\ HasClient(c)
              /\ \/ ~sess[c].exit /\ sess'[c].exit
                 \/ c \in clients /\ c \notin clients') =>
                 /\ hpc[c] = "finally"
                 /\ Disconnected(c) \/ peer[c] # "open"
                       \/ now - start_times[c] < max_connection_time]_vars

C14_Witness ==
    \E c \in Conns :
        /\ HasClient(c)
        /\ Disconnected(c)
        /\ hpc[c] = "done"
        /\ sess[c].exit
        /\ c \notin clients

---------------------------------------------------------------------------
(* Claims about the handshake (SpecHandshake) *)

\* the handshake the handler read is not JSON, or names a model the server
\* cannot find
BadHandshake(options) ==
    \/ options = MalformedOptions
    \/ "model" \in DOMAIN options /\ ~(single_model \/ options.model \in model_sizes)

C28_NoOrphanWorker ==
    \A c \in Conns :
        (hpc[c] = "done" /\ wpc[c] \notin {"none", "exited"}) =>
            (HasClient(c) /\ sess[c].exit)

\* C29 (as stated): whatever the interleaving of the handshakes, the use_vad
\* a client object is built with is the use_vad of the handshake message of
\* its own connection.
C29_OwnVadSetting ==
    \A c \in Conns :
        HasClient(c) => sess[c].use_vad = hl[c].use_vad

\* C17: for every admitted session whose peer closes the connection (while
\* the handler waits for a frame, or before DISCONNECT can be sent), the
\* registry entry is eventually removed and the exit flag eventually set;
\* both happen in one and the same step, once: an entry that was removed is
\* never registered again and the flag is never cleared.
C17_PeerCloseCleansUp ==
    /\ \A c \in ModelConns :
          (admitted_at[c] # None /\ peer[c] = "closed")
              ~> (c \notin clients /\ HasClient(c) /\ sess[c].exit)
    /\ [][\A c \in Conns :
            HasClient(c) =>
               /\ (c \in clients /\ c \notin clients')
                     <=> (~sess[c].exit /\ sess'[c].exit)
               /\ (admitted_at[c] # None /\ c \notin clients) => c \notin clients'
               /\ sess[c].exit => sess'[c].exit]_vars

C17_Witness ==
    \E c \in Conns :
        /\ admitted_at[c] # None
        /\ peer[c] = "closed"
        /\ hpc[c] = "done"
        /\ c \notin clients
        /\ sess[c].exit
        /\ ~Disconnected(c)

---------------------------------------------------------------------------
(* Claims about pauses (SpecPause) *)

\* C19: during one pause (consecutive polls returning no segment) that
\* begins with a text history whose last entry is not blank, no blank entry
\* is appended as long as the idle polls come 3 s or less after the first
\* one, and exactly one blank entry has been appended once an idle poll has
\* come more than 3 s after it, however many idle polls follow.
C19_OneBlankPerPause ==
    (hist.op = "idle" /\ sess[1].t_start # None) =>
        LET text == hist.text
            started == Len(text) > 0 /\ text[Len(text)] # <<>>
        IN  /\ sess[1].t_start = hist.t_start
            /\ started =>
                  /\ hist.last - hist.t_start <= 3 =>
                        (sess[1].text = text /\ hist.blanks = 0)
                  /\ hist.last - hist.t_start > 3 =>
                        (sess[1].text = Append(text, <<>>) /\ hist.blanks = 1)
            /\ ~started => (sess[1].text = text /\ hist.blanks = 0)

C19_Witness ==
    /\ hist.op = "idle"
    /\ sess[1].t_start # None
    /\ hist.text = <<SegB.text>>
    /\ hist.polls >= 4
    /\ hist.blanks = 1
    /\ sess[1].text = <<SegB.text, <<>>>>

\* the first poll of the session has returned the two segments of "hi there"
\* for the two seconds of audio, and its output is being handled
HiTherePoll ==
    /\ wpc[1] \in {"handle", "update_offset"}
    /\ wl[1].polls = 1
    /\ wl[1].result = HiThere
    /\ wl[1].duration = 2 * RATE

\* the step that ends the handling of a poll's output
PollHandled == wpc[1] = "update_offset" /\ wpc'[1] = "check_exit"

\* C20: in a fresh session holding 2.0 s of audio, the poll that returns
\* 'hi' over [0.0, 1.0] and 'there' over [1.0, 1.9] commits exactly the entry
\* ('0.000', '1.000', 'hi'), sends one message, whose segments end with the
\* tentative ('1.000', '1.900', 'there'), and leaves timestamp_offset at 1.0 s.
C20_HiThere ==
    [][HiTherePoll =>
          IF PollHandled
          THEN /\ sess'[1].transcript =
                      <<[start |-> 0, end |-> 1000, text |-> <<"h", "i">>]>>
               /\ out[1] = <<>>
               /\ out'[1] = <<[start |-> 0, end |-> 1000, text |-> <<"h", "i">>],
                              [start |-> 1000, end |-> 1900,
                               text |-> <<"t", "h", "e", "r", "e">>]>>
               /\ sess'[1].timestamp_offset = RATE
          ELSE out' = out]_vars

C20_Witness ==
    /\ wpc[1] = "check_exit"
    /\ wl[1].polls = 1
    /\ Len(out[1]) = 2
    /\ out[1][2].text = SegThere.text
    /\ Len(sess[1].transcript) = 1
    /\ sess[1].timestamp_offset = RATE

---------------------------------------------------------------------------
(* Claims about the construction of sessions (SpecCreate) *)

\* C24 (as stated): with single_model, create_model is called at most once,
\* whatever the interleaving of the constructors, and every session
\* transcribes with the model that SINGLE_MODEL holds.
C24_SharedModelCreatedOnce ==
    (single_model /\ hist.op = "create_model") =>
        /\ Cardinality(hist.created) <= 1
        /\ \A c \in Conns :
              hist.transcriber[c] # None => hist.transcriber[c] = hist.shared

---------------------------------------------------------------------------
(* Claims about the messages of a poll (SpecOutgoing) *)

\* C26: the step that ends the handling of a poll that returned one or more
\* segments leaves t_start cleared and sends, if it is not empty, the list
\* made of the last min(10, length) transcript entries, in order, followed
\* by the tentative segment when update_segments returned one; an empty list
\* is not sent; and the tentative segment is not a transcript entry.
C26_OutgoingList ==
    [][(PollHandled /\ ~wl[1].no_result /\ peer[1] = "open") =>
          LET t == sess'[1].transcript
              n == Len(t)
              k == IF n < 10 THEN n ELSE 10
              list == SubSeq(t, n - k + 1, n) \o ret'
          IN  /\ sess'[1].t_start = None
              /\ Len(ret') <= 1
              /\ out'[1] = IF list # <<>> THEN list ELSE out[1]
              /\ t = sess[1].transcript
              /\ \A i \in 1..n : \A j \in 1..Len(ret') : t[i] # ret'[j]]_vars

C26_Witness ==
    /\ wpc[1] = "check_exit"
    /\ Len(sess[1].transcript) = 12
    /\ Len(out[1]) = 11
    /\ out[1][11].text = SegA.text
    /\ out[1][1] = sess[1].transcript[3]
    /\ ret = <<out[1][11]>>

\* the worker handles a transcription call that returned None (lines 811-814)
NoResultPoll == wl[1].no_result /\ wpc[1] \in {"handle", "update_offset"}

\* C27: a transcription call that returns None for a chunk of duration
\* d >= 1.0 s advances timestamp_offset by exactly d and changes neither the
\* transcript, the text history, current_out, prev_out nor
\* same_output_threshold; nothing is sent and the worker goes on with its
\* loop.
C27_NoResultPoll ==
    [][(NoResultPoll /\ wpc'[1] # wpc[1]) =>
          /\ wl[1].duration >= RATE
          /\ sess'[1].transcript = sess[1].transcript
          /\ sess'[1].text = sess[1].text
          /\ sess'[1].current_out = sess[1].current_out
          /\ sess'[1].prev_out = sess[1].prev_out
          /\ sess'[1].same_output_threshold = sess[1].same_output_threshold
          /\ sess'[1].exit = sess[1].exit
          /\ UNCHANGED <<out, sent, ret>>
          /\ IF wpc[1] = "handle"
             THEN /\ wpc'[1] = "update_offset"
                  /\ sess'[1].timestamp_offset = sess[1].timestamp_offset
             ELSE /\ wpc'[1] = "check_exit"
                  /\ sess'[1].timestamp_offset =
                        sess[1].timestamp_offset + wl[1].duration]_vars

C27_Witness ==
    /\ wpc[1] = "check_exit"
    /\ wl[1].polls = 2
    /\ Len(sess[1].transcript) = 1
    /\ sess[1].timestamp_offset = OutgoingSeconds * RATE
    /\ Len(out[1]) = 2

===========================================================================
